---------------------------- MODULE Spec2Model ----------------------------
(***************************************************************************)
(* Model of the agent orchestration loop of src/Agent.py: the LangGraph    *)
(* graph built by Agent.__init__ (nodes "llm" and "action", the            *)
(* conditional edge next_move), the transcript state["messages"] with its  *)
(* operator.add reducer, and the tools of the registry.                    *)
(*                                                                         *)
(* Python strings on which the code computes (AIMessage.content, tool      *)
(* results) are tuples of one-character strings, so that lower() and the   *)
(* substring test "in" are computed, not assumed.  Tool names and call ids *)
(* are only compared for equality and are TLA+ strings.                    *)
(***************************************************************************)
EXTENDS Naturals, Sequences, FiniteSets

VARIABLES
    system,     \* Agent.system: the instruction text given to the constructor
    messages,   \* AgentState["messages"]: the transcript
    pc,         \* the graph node that runs next: "llm", "action" or END
    decision,   \* what next_move returned last ("none" before its first call)
    prompt,     \* the message list last handed to model.invoke
    log,        \* the external calls made so far: model.invoke and tool.invoke
    error,      \* the exception that left graph.invoke, "none" while it runs
    branch,     \* what should_continue of src/graph.py returned last
    appointments,   \* src/main.py: the rows of table Appointment, in row order
    response,   \* src/main.py: the last GET /check_availability and its answer
    threads     \* the AgentState of each of two concurrent graph.invoke runs

vars == <<system, messages, pc, decision, prompt, log, error,
          branch, appointments, response, threads>>

(***************************************************************************)
(* Bounds of the model.                                                    *)
(***************************************************************************)
\* Longest transcript the collaborator is allowed to build.
MaxLen == 6
\* Most tool calls the collaborator puts in one AIMessage.
MaxCalls == 2
\* Most rows of table Appointment.
MaxAppointments == 2
\* Appointments and requests start at 10:00 plus 0..MaxSlot half hours.
MaxSlot == 6
\* Longest transcript of a conversation when two of them run together.
ThreadMaxLen == 4

(***************************************************************************)
(* Python values.                                                          *)
(***************************************************************************)
None == "None"

\* a str value, and a list value (AIMessage.content is str | list)
Str(s) == [type |-> "str", v |-> s]
List(blocks) == [type |-> "list", v |-> blocks]

\* len(x) of a str or a list
len(x) == Len(x.v)

UpperToLower ==
    [A |-> "a", B |-> "b", C |-> "c", D |-> "d", E |-> "e", F |-> "f",
     G |-> "g", H |-> "h", I |-> "i", J |-> "j", K |-> "k", L |-> "l",
     M |-> "m", N |-> "n", O |-> "o", P |-> "p", Q |-> "q", R |-> "r",
     S |-> "s", T |-> "t", U |-> "u", V |-> "v", W |-> "w", X |-> "x",
     Y |-> "y", Z |-> "z"]

\* (mutant of lower) the text is compared as typed, lower() forgotten
lower_forgotten(s) == s

\* str.lower(), character by character
lower(s) ==
    [i \in 1..Len(s) |->
        IF s[i] \in DOMAIN UpperToLower THEN UpperToLower[s[i]] ELSE s[i]]

\* the substring test  sub in s  on two str values
in(sub, s) ==
    \E i \in 0..(Len(s) - Len(sub)) : SubSeq(s, i + 1, i + Len(sub)) = sub

\* the literal "final state:" of next_move
Sentinel == <<"f","i","n","a","l"," ","s","t","a","t","e",":">>

\* the literal "bad tool name, retry" of act
BadToolName ==
    <<"b","a","d"," ","t","o","o","l"," ","n","a","m","e",","," ",
      "r","e","t","r","y">>

(***************************************************************************)
(* Messages (langchain_core.messages).                                     *)
(***************************************************************************)
SystemMessage(content) ==
    [type |-> "system", content |-> content, tool_calls |-> <<>>,
     tool_call_id |-> None, name |-> None]

HumanMessage(content) ==
    [type |-> "human", content |-> content, tool_calls |-> <<>>,
     tool_call_id |-> None, name |-> None]

AIMessage(content, tool_calls) ==
    [type |-> "ai", content |-> content, tool_calls |-> tool_calls,
     tool_call_id |-> None, name |-> None]

ToolMessage(tool_call_id, name, content) ==
    [type |-> "tool", content |-> content, tool_calls |-> <<>>,
     tool_call_id |-> tool_call_id, name |-> name]

\* one entry of AIMessage.tool_calls
ToolCall(id, name) == [id |-> id, name |-> name]

(***************************************************************************)
(* Decision and the graph of Agent.__init__.                               *)
(***************************************************************************)
THINK == "THINK"
ACT == "ACT"
END == "END"
Decision == {THINK, ACT, END}

\* langgraph's END node
GraphEND == "__end__"

\* graph.set_entry_point("llm")
EntryPoint == "llm"

\* (mutant of ConditionalEdges) Decision.END mapped to node "llm"
ConditionalEdges_end_thinks(d) ==
    CASE d = THINK -> "llm"
      [] d = ACT   -> "action"
      [] d = END   -> "llm"

\* (mutant of ConditionalEdges) THINK mapped to END instead of "llm"
ConditionalEdges_think_ends(d) ==
    CASE d = THINK -> GraphEND
      [] d = ACT   -> "action"
      [] d = END   -> GraphEND

\* graph.add_conditional_edges("llm", self.next_move, {...})
ConditionalEdges(d) ==
    CASE d = THINK -> "llm"
      [] d = ACT   -> "action"
      [] d = END   -> GraphEND

\* (mutant of ActionEdge) the run ends after the tools
ActionEdge_to_end == GraphEND

\* graph.add_edge("action", "llm")
ActionEdge == "llm"


\* (mutant of add) a field without a reducer: the update replaces the list
add_overwrite(old, update) == update

(***************************************************************************)
(* AgentState: messages is Annotated[List[AnyMessage], operator.add], so a *)
(* node's returned list is concatenated to the transcript.                 *)
(***************************************************************************)
add(old, update) == old \o update

\* (mutant of next_move) a last message that is not an AIMessage keeps the
\* graph in node "llm"
next_move_non_ai_thinks(state_messages) ==
    LET llm_message == state_messages[Len(state_messages)] IN
    IF llm_message.type = "ai"
    THEN IF len(llm_message.content) > 0 /\ Len(llm_message.tool_calls) = 0
         THEN IF llm_message.content.type = "str"
                 /\ in(Sentinel, lower(llm_message.content.v))
              THEN END
              ELSE THINK
         ELSE IF Len(llm_message.tool_calls) > 0
         THEN ACT
         ELSE END
    ELSE THINK

\* (mutant of next_move) a turn budget: a transcript of more than four
\* messages ends the run
next_move_turn_budget(state_messages) ==
    LET llm_message == state_messages[Len(state_messages)] IN
    IF Len(state_messages) > 4
    THEN END
    ELSE IF llm_message.type = "ai"
    THEN IF len(llm_message.content) > 0 /\ Len(llm_message.tool_calls) = 0
         THEN IF llm_message.content.type = "str"
                 /\ in(Sentinel, lower(llm_message.content.v))
              THEN END
              ELSE THINK
         ELSE IF Len(llm_message.tool_calls) > 0
         THEN ACT
         ELSE END
    ELSE END

\* (mutant of next_move) the sentinel is looked for before the tool calls
next_move_sentinel_first(state_messages) ==
    LET llm_message == state_messages[Len(state_messages)] IN
    IF llm_message.type = "ai"
    THEN IF len(llm_message.content) > 0
            /\ llm_message.content.type = "str"
            /\ in(Sentinel, lower(llm_message.content.v))
         THEN END
         ELSE IF Len(llm_message.tool_calls) > 0
         THEN ACT
         ELSE IF len(llm_message.content) > 0
         THEN THINK
         ELSE END
    ELSE END

\* (mutant of next_move) an AIMessage that matches no branch keeps thinking
next_move_default_think(state_messages) ==
    LET llm_message == state_messages[Len(state_messages)] IN
    IF llm_message.type = "ai"
    THEN IF len(llm_message.content) > 0 /\ Len(llm_message.tool_calls) = 0
         THEN IF llm_message.content.type = "str"
                 /\ in(Sentinel, lower(llm_message.content.v))
              THEN END
              ELSE THINK
         ELSE IF Len(llm_message.tool_calls) > 0
         THEN ACT
         ELSE THINK
    ELSE END

(***************************************************************************)
(* Agent.next_move: the router on the last message of the transcript.      *)
(***************************************************************************)
next_move(state_messages) ==
    LET llm_message == state_messages[Len(state_messages)] IN
    IF llm_message.type = "ai"
    THEN IF len(llm_message.content) > 0 /\ Len(llm_message.tool_calls) = 0
         THEN IF llm_message.content.type = "str"
                 /\ in(Sentinel, lower(llm_message.content.v))
              THEN END
              ELSE THINK
         ELSE IF Len(llm_message.tool_calls) > 0 /\ len(llm_message.content) = 0
         THEN ACT
         ELSE IF Len(llm_message.tool_calls) > 0 /\ len(llm_message.content) > 0
         THEN ACT
         ELSE END
    ELSE END

(***************************************************************************)
(* The tools.  A tool is an external collaborator: invoking it either      *)
(* returns a value or raises.  Each definition is the set of outcomes the  *)
(* tool can have, over the arguments and the environment (the clock, the   *)
(* terminal, the scheduling backend).                                      *)
(***************************************************************************)
Return(value) == [raises |-> FALSE, value |-> value]
Raise == [raises |-> TRUE, value |-> Str(<<>>)]

\* a dict value, held as its repr
Dict(repr) == [type |-> "dict", v |-> repr]

\* str(result): a str is itself, any other value is rendered to its repr
str(result) == IF result.type = "str" THEN result ELSE Str(result.v)

\* what the human types at an input() prompt
UserInputs == { <<"1","0",":","0","0">> }

\* requests.post(...).json() echoes the record, or the request fails
set_appointment ==
    { Return(Dict(<<"{","'","i","d","'",":"," ","1","}">>)), Raise }

\* response_parsed["message"], or the request or the key lookup fails
check_conflicting_appointment ==
    { Return(Str(<<"Y","e","s">>)), Return(Str(<<"S","o","r","r","y">>)), Raise }

\* input(...) returns the typed line, or raises EOFError on a closed terminal
ask_user_for_input == { Return(Str(u)) : u \in UserInputs } \cup { Raise }

\* datetime.now().isoformat()
get_current_datetime ==
    { Return(Str(<<"2","0","2","5","-","0","1","-","0","7","T",
                   "1","0",":","0","0",":","0","0">>)) }

\* the fixed string "FINAL STATE: ..." (its greeting cut to one word)
connect_to_human_operator ==
    { Return(Str(<<"F","I","N","A","L"," ","S","T","A","T","E",":"," ",
                   "S","a","i","n">>)) }

\* one of the two answers, or the not-found sentence
browse_business_information ==
    { Return(Str(<<"8",":","0","0","-","1","7">>)),
      Return(Str(<<"C","i","t","y"," ","T","o","w","e","r">>)),
      Return(Str(<<"R","e","s","p","o","n","s","e"," ","t","o"," ","t","h","e",
                   " ","q","u","e","s","t","i","o","n"," ","w","a","s"," ",
                   "n","o","t"," ","f","o","u","n","d",".">>)) }

\* self.tools = { t.name : t for t in tools }, with the list of main()
tools ==
    [get_current_datetime          |-> get_current_datetime,
     ask_user_for_input            |-> ask_user_for_input,
     check_conflicting_appointment |-> check_conflicting_appointment,
     set_appointment               |-> set_appointment,
     connect_to_human_operator     |-> connect_to_human_operator,
     browse_business_information   |-> browse_business_information]

(***************************************************************************)
(* The log of external calls.                                              *)
(***************************************************************************)
ModelEvent(outcome) ==
    [kind |-> "model", id |-> None, name |-> None, outcome |-> outcome]

ToolEvent(t, outcome) ==
    [kind |-> "tool", id |-> t.id, name |-> t.name, outcome |-> outcome]

(***************************************************************************)
(* Agent.act.  A run of act is what it appended to results, the tool       *)
(* invocations it made, and whether an invocation raised (the exception    *)
(* leaves act, and results is lost).                                       *)
(***************************************************************************)
\* (mutant of ResultMessage) name=t['name'] left out of the ToolMessage
ResultMessage_no_name(t, result) == ToolMessage(t.id, None, str(result))

\* ToolMessage(tool_call_id=t['id'], name=t['name'], content=str(result))
ResultMessage(t, result) == ToolMessage(t.id, t.name, str(result))

\* (mutant of CallOutcomes) no membership test: self.tools[t['name']] raises
\* KeyError for a name that is not registered
CallOutcomes_key_error(t) ==
    IF t.name \notin DOMAIN tools
    THEN { [raised |-> TRUE, result |-> Str(<<>>), invoked |-> <<>>] }
    ELSE { [raised |-> o.raises, result |-> o.value,
            invoked |-> <<ToolEvent(t, IF o.raises THEN "raise" ELSE "ok")>>]
           : o \in tools[t.name] }

\* (mutant of CallOutcomes) the invocation wrapped in try/except: a raising
\* tool becomes a result and the loop goes on
CallOutcomes_caught(t) ==
    IF t.name \notin DOMAIN tools
    THEN { [raised |-> FALSE, result |-> Str(BadToolName), invoked |-> <<>>] }
    ELSE { [raised |-> FALSE, result |-> o.value,
            invoked |-> <<ToolEvent(t, IF o.raises THEN "raise" ELSE "ok")>>]
           : o \in tools[t.name] }

\* one iteration's lookup and call: "bad tool name, retry" when the name is
\* not registered, else self.tools[t['name']].invoke(t['args'])
CallOutcomes(t) ==
    IF t.name \notin DOMAIN tools
    THEN { [raised |-> FALSE, result |-> Str(BadToolName), invoked |-> <<>>] }
    ELSE { [raised |-> o.raises, result |-> o.value,
            invoked |-> <<ToolEvent(t, IF o.raises THEN "raise" ELSE "ok")>>]
           : o \in tools[t.name] }

\* (mutant of ActLoop) the calls are taken from the last to the first
RECURSIVE ActLoop_last_first(_, _, _, _)
ActLoop_last_first(tool_calls, i, results, invoked) ==
    IF i > Len(tool_calls)
    THEN { [results |-> results, invoked |-> invoked, raised |-> FALSE] }
    ELSE LET t == tool_calls[Len(tool_calls) + 1 - i] IN
         UNION {
            IF c.raised
            THEN { [results |-> results, invoked |-> invoked \o c.invoked,
                    raised |-> TRUE] }
            ELSE ActLoop_last_first(tool_calls, i + 1,
                         <<ResultMessage(t, c.result)>> \o results,
                         invoked \o c.invoked)
            : c \in CallOutcomes(t) }

\* (mutant of ActLoop) results.insert(0, ...) in place of results.append(...)
RECURSIVE ActLoop_insert_front(_, _, _, _)
ActLoop_insert_front(tool_calls, i, results, invoked) ==
    IF i > Len(tool_calls)
    THEN { [results |-> results, invoked |-> invoked, raised |-> FALSE] }
    ELSE LET t == tool_calls[i] IN
         UNION {
            IF c.raised
            THEN { [results |-> results, invoked |-> invoked \o c.invoked,
                    raised |-> TRUE] }
            ELSE ActLoop_insert_front(tool_calls, i + 1,
                         <<ResultMessage(t, c.result)>> \o results,
                         invoked \o c.invoked)
            : c \in CallOutcomes(t) }

\* the loop  for t in llm_message.tool_calls  from call number i on
RECURSIVE ActLoop(_, _, _, _)
ActLoop(tool_calls, i, results, invoked) ==
    IF i > Len(tool_calls)
    THEN { [results |-> results, invoked |-> invoked, raised |-> FALSE] }
    ELSE LET t == tool_calls[i] IN
         UNION {
            IF c.raised
            THEN { [results |-> results, invoked |-> invoked \o c.invoked,
                    raised |-> TRUE] }
            ELSE ActLoop(tool_calls, i + 1,
                         Append(results, ResultMessage(t, c.result)),
                         invoked \o c.invoked)
            : c \in CallOutcomes(t) }

act(state_messages) ==
    LET llm_message == state_messages[Len(state_messages)] IN
    IF llm_message.type # "ai"
    THEN { [results |-> <<>>, invoked |-> <<>>, raised |-> FALSE] }
    ELSE ActLoop(llm_message.tool_calls, 1, <<>>, <<>>)

(***************************************************************************)
(* The reasoning collaborator: model.invoke returns one AIMessage, of any  *)
(* content and any tool calls, or raises.  The replies are drawn from the  *)
(* sets below.                                                             *)
(***************************************************************************)
\* tool names the collaborator asks for; take_user_input is not registered
RequestedNames ==
    { "connect_to_human_operator", "ask_user_for_input", "take_user_input" }

CallId(j) == <<"call", j>>

\* the ids of a batch of k calls: pairwise different, in either order
IdOrders(k) ==
    { [j \in 1..k |-> CallId(j)], [j \in 1..k |-> CallId(k + 1 - j)] }

\* the batches of exactly k calls
Batches(k) ==
    { [j \in 1..k |-> ToolCall(ids[j], names[j])] :
        ids \in IdOrders(k), names \in [1..k -> RequestedNames] }

CallLists == UNION { Batches(k) : k \in 0..MaxCalls }

ReplyContents ==
    { Str(<<>>),
      Str(<<"o","k">>),
      Str(<<"F","i","n","a","l"," ","S","t","a","t","e",":"," ","o","k">>) }

\* the replies that keep the transcript, with their results, within MaxLen
ModelReplies(state_messages) ==
    { AIMessage(c, calls) : c \in ReplyContents,
        calls \in { cl \in CallLists :
                      Len(state_messages) + 1 + Len(cl) <= MaxLen } }

(***************************************************************************)
(* Agent.call_model: the list handed to the model.                         *)
(***************************************************************************)
call_model_input(state_messages) ==
    IF system # <<>>
    THEN <<SystemMessage(Str(system))>> \o state_messages
    ELSE state_messages

(***************************************************************************)
(* src/graph.py: the router of the second graph, whose nodes are "agent"   *)
(* and "tools".                                                            *)
(***************************************************************************)
\* (mutant of should_continue) the test for tool calls left out
should_continue_never_tools(state_messages) == GraphEND

should_continue(state_messages) ==
    LET last_message == state_messages[Len(state_messages)] IN
    IF last_message.type = "ai" /\ Len(last_message.tool_calls) > 0
    THEN "tools"
    ELSE GraphEND

(***************************************************************************)
(* src/main.py: the scheduling service.  A datetime is a number of minutes *)
(* since midnight of one day; its ISO string is the time of day "HH:MM"    *)
(* (the date, the same for every value here, and the seconds are left      *)
(* out).  Column appointment_datetime holds the string, and the window     *)
(* of check_available_time compares strings, as SQL BETWEEN does.          *)
(***************************************************************************)
Digits == <<"0","1","2","3","4","5","6","7","8","9">>

DigitOf(n) == Digits[n + 1]
ValueOf(c) == CHOOSE n \in 0..9 : Digits[n + 1] = c

\* datetime.isoformat()
isoformat(t) ==
    <<DigitOf((t \div 60) \div 10), DigitOf((t \div 60) % 10), ":",
      DigitOf((t % 60) \div 10), DigitOf((t % 60) % 10)>>

\* dateutil's parser.parse on an ISO string
parse(s) ==
    (ValueOf(s[1]) * 10 + ValueOf(s[2])) * 60 + ValueOf(s[4]) * 10 + ValueOf(s[5])

\* the collating rank of a character: the digits, then ":"
CharRank(c) == IF c = ":" THEN 10 ELSE ValueOf(c)

\* a <= b on strings, character by character
RECURSIVE str_le(_, _)
str_le(a, b) ==
    IF a = <<>> THEN TRUE
    ELSE IF b = <<>> THEN FALSE
    ELSE IF CharRank(Head(a)) < CharRank(Head(b)) THEN TRUE
    ELSE IF CharRank(Head(a)) > CharRank(Head(b)) THEN FALSE
    ELSE str_le(Tail(a), Tail(b))

\* column.between(low, high)
between(x, low, high) == str_le(low, x) /\ str_le(x, high)

\* a row of table Appointment (the columns check_available_time reads, and id)
Appointment(id, appointment_datetime, expected_duration) ==
    [id |-> id, appointment_datetime |-> appointment_datetime,
     expected_duration |-> expected_duration]

\* the tuples check_available_time returns; None is <<>>
Available ==
    [is_available |-> TRUE, conflict_message |-> <<>>, suggested_time |-> <<>>]

\* (mutant of Conflict) the start of the appointment is suggested, not its end
Conflict_suggests_start(kind, appointment, appointment_end_dt) ==
    [is_available |-> FALSE,
     conflict_message |-> <<kind, appointment.appointment_datetime>>,
     suggested_time |-> appointment.appointment_datetime]

Conflict(kind, appointment, appointment_end_dt) ==
    [is_available |-> FALSE,
     conflict_message |-> <<kind, appointment.appointment_datetime>>,
     suggested_time |-> isoformat(appointment_end_dt)]

\* the loop  for appointment in appointments  from row number i on
RECURSIVE CheckLoop(_, _, _, _)
CheckLoop(candidates, i, requested_dt, requested_end_dt) ==
    IF i > Len(candidates)
    THEN Available
    ELSE LET appointment == candidates[i]
             appointment_dt == parse(appointment.appointment_datetime)
             appointment_end_dt == appointment_dt + appointment.expected_duration
         IN  IF \/ (requested_dt <= appointment_end_dt
                    /\ requested_end_dt >= appointment_dt)
                \/ (appointment_dt <= requested_end_dt
                    /\ appointment_end_dt >= requested_dt)
             THEN IF requested_dt < appointment_dt
                  THEN Conflict("Conflict arose with", appointment,
                                appointment_end_dt)
                  ELSE Conflict("Conflict arose with", appointment,
                                appointment_end_dt)
             ELSE IF appointment_dt > requested_dt
                     /\ appointment_dt < requested_end_dt
             THEN Conflict("Another appointment starts during", appointment,
                           appointment_end_dt)
             ELSE CheckLoop(candidates, i + 1, requested_dt, requested_end_dt)

\* (mutant of Candidates) select(Appointment) with no where clause
Candidates_no_window(db_session, requested_dt) == db_session

\* the rows the select statement returns: those whose appointment_datetime
\* is between the ISO strings of requested_dt - 2 h and requested_dt + 2 h
Candidates(db_session, requested_dt) ==
    LET InWindow(a) ==
            between(a.appointment_datetime,
                    isoformat(requested_dt - 2 * 60),
                    isoformat(requested_dt + 2 * 60))
    IN  SelectSeq(db_session, InWindow)

check_available_time(db_session, requested_datetime, duration) ==
    LET requested_dt == parse(requested_datetime)
        requested_end_dt == requested_dt + duration
    IN  CheckLoop(Candidates(db_session, requested_dt), 1,
                  requested_dt, requested_end_dt)

\* GET /check_availability: the JSON body, its message held by its parts
check_appointment_availability(session, dt, duration) ==
    LET result == check_available_time(session, dt, duration) IN
    IF result.is_available
    THEN [status |-> 200,
          message |-> <<"Yes, you can order at", dt>>]
    ELSE [status |-> 200,
          message |-> <<"Sorry, there is a conflict of appointment at", dt,
                        "However we suggest you to order at",
                        result.suggested_time>>]

\* no request has been answered yet
NoResponse ==
    [dt |-> <<>>, duration |-> 0, result |-> Available,
     body |-> [status |-> 0, message |-> <<>>]]

\* no second graph.invoke is running
NoThreads == <<>>

(***************************************************************************)
(* The run of main(): bot.graph.invoke({"messages": [HumanMessage(...)]}). *)
(***************************************************************************)
\* the prompt of main() (cut to its first words), or the default ""
Systems == { <<>>, <<"Y","o","u"," ","a","r","e">> }

\* what the human types first
TextQueries == { <<"b","o","o","k">> }

Init ==
    /\ system \in Systems
    /\ messages \in { <<HumanMessage(Str(q))>> : q \in TextQueries }
    /\ pc = EntryPoint
    /\ decision = "none"
    /\ prompt = <<>>
    /\ log = <<>>
    /\ error = "none"
    /\ branch = "none"
    /\ appointments = <<>>
    /\ response = NoResponse
    /\ threads = NoThreads

\* (mutant of LlmNode) call_model returns the list it handed to the model
\* together with the reply
LlmNode_returns_view ==
    /\ pc = "llm"
    /\ error = "none"
    /\ prompt' = call_model_input(messages)
    /\ UNCHANGED <<branch, appointments, response, threads>>
    /\ \/ \E reply \in ModelReplies(messages) :
            /\ messages' = add(messages,
                               SubSeq(prompt', 1, Len(prompt') - Len(messages))
                                 \o <<reply>>)
            /\ decision' = next_move(messages')
            /\ pc' = ConditionalEdges(decision')
            /\ log' = Append(log, ModelEvent("ok"))
            /\ UNCHANGED <<system, error>>
       \/ /\ ModelReplies(messages) # {}
          /\ log' = Append(log, ModelEvent("raise"))
          /\ error' = "model"
          /\ UNCHANGED <<system, messages, pc, decision>>

\* node "llm" (call_model), then the conditional edge (next_move)
LlmNode ==
    /\ pc = "llm"
    /\ error = "none"
    /\ prompt' = call_model_input(messages)
    /\ UNCHANGED <<branch, appointments, response, threads>>
    /\ \/ \E reply \in ModelReplies(messages) :
            /\ messages' = add(messages, <<reply>>)
            /\ decision' = next_move(messages')
            /\ pc' = ConditionalEdges(decision')
            /\ log' = Append(log, ModelEvent("ok"))
            /\ UNCHANGED <<system, error>>
       \/ /\ ModelReplies(messages) # {}
          /\ log' = Append(log, ModelEvent("raise"))
          /\ error' = "model"
          /\ UNCHANGED <<system, messages, pc, decision>>

\* (mutant of ActionNode) the results obtained before a tool raised are
\* returned to the graph
ActionNode_keeps_partial ==
    /\ pc = "action"
    /\ error = "none"
    /\ \E run \in act(messages) :
          /\ log' = log \o run.invoked
          /\ messages' = add(messages, run.results)
          /\ IF run.raised
             THEN /\ error' = "tool"
                  /\ UNCHANGED pc
             ELSE /\ pc' = ActionEdge
                  /\ UNCHANGED error
    /\ UNCHANGED <<system, decision, prompt, branch, appointments, response,
                   threads>>

\* (mutant of ActionNode) node "action" followed by the conditional edge of
\* node "llm" in place of the edge to "llm"
ActionNode_routed ==
    /\ pc = "action"
    /\ error = "none"
    /\ \E run \in act(messages) :
          /\ log' = log \o run.invoked
          /\ IF run.raised
             THEN /\ error' = "tool"
                  /\ UNCHANGED <<messages, pc>>
             ELSE /\ messages' = add(messages, run.results)
                  /\ pc' = ConditionalEdges(next_move(messages'))
                  /\ UNCHANGED error
    /\ UNCHANGED <<system, decision, prompt, branch, appointments, response,
                   threads>>

\* node "action" (act), then the edge to "llm"
ActionNode ==
    /\ pc = "action"
    /\ error = "none"
    /\ \E run \in act(messages) :
          /\ log' = log \o run.invoked
          /\ IF run.raised
             THEN /\ error' = "tool"
                  /\ UNCHANGED <<messages, pc>>
             ELSE /\ messages' = add(messages, run.results)
                  /\ pc' = ActionEdge
                  /\ UNCHANGED error
    /\ UNCHANGED <<system, decision, prompt, branch, appointments, response,
                   threads>>

Next == LlmNode \/ ActionNode

Spec == Init /\ [][Next]_vars

(***************************************************************************)
(* next_move on its own: the last message is drawn from every shape of     *)
(* message, and one step applies the router to it.                         *)
(***************************************************************************)
ClassifyContents ==
    ReplyContents \cup
    { Str(<<"f","i","n","a","l"," ","s","t","a","t","e",":">>),
      Str(<<"F","I","N","A","L"," ","S","T","A","T","E",":">>),
      Str(<<"f","I","n","A","l"," ","S","t","A","t","E",":"," ","o","k">>),
      Str(<<"o","k"," ","f","i","n","a","l"," ","s","t","a","t","e",":"," ","o","k">>),
      Str(<<"f","i","n","a","l"," ","s","t","a","t","e">>),
      Str(<<"f","i","n","a","l"," "," ","s","t","a","t","e",":">>),
      List(<<>>),
      List(<< <<"f","i","n","a","l"," ","s","t","a","t","e",":">> >>) }

\* the last messages next_move is tried on
ClassifyInputs ==
    { AIMessage(c, calls) : c \in ClassifyContents, calls \in CallLists }
    \cup { HumanMessage(c) : c \in ClassifyContents }
    \cup UNION { { ResultMessage(ToolCall(CallId(1), n), o.value) :
                      o \in { r \in tools[n] : ~r.raises } } :
                  n \in DOMAIN tools }

ClassifyInit ==
    /\ system \in Systems
    /\ \E q \in TextQueries, m \in ClassifyInputs :
          messages = <<HumanMessage(Str(q)), m>>
    /\ pc = EntryPoint
    /\ decision = "none"
    /\ prompt = <<>>
    /\ log = <<>>
    /\ error = "none"
    /\ branch = "none"
    /\ appointments = <<>>
    /\ response = NoResponse
    /\ threads = NoThreads

\* the conditional edge after node "llm"
Classify ==
    /\ decision = "none"
    /\ decision' = next_move(messages)
    /\ branch' = should_continue(messages)
    /\ pc' = ConditionalEdges(decision')
    /\ UNCHANGED <<system, messages, prompt, log, error, appointments, response,
                   threads>>

ClassifyNext == Classify

ClassifySpec == ClassifyInit /\ [][ClassifyNext]_vars

(***************************************************************************)
(* The scheduling service on its own.  The table starts empty             *)
(* (create_db_and_tables); orders are posted, then availability is asked.  *)
(* The service keeps nothing of a request, so a run observes one request   *)
(* against the table the orders have built.                                *)
(***************************************************************************)
\* the datetimes of orders and requests: 10:00 plus half hours
Datetimes == { isoformat(10 * 60 + 30 * k) : k \in 0..MaxSlot }

\* expected_duration of the orders posted, in minutes
OrderDurations == { 30, 90, 180 }

\* duration of the requests, in minutes
RequestDurations == { 30, 60 }

BackendInit ==
    /\ system = <<>>
    /\ messages = <<>>
    /\ pc = EntryPoint
    /\ decision = "none"
    /\ prompt = <<>>
    /\ log = <<>>
    /\ error = "none"
    /\ branch = "none"
    /\ appointments = <<>>
    /\ response = NoResponse
    /\ threads = NoThreads

\* POST /order: the row is added with the next id
make_order ==
    /\ response = NoResponse
    /\ Len(appointments) < MaxAppointments
    /\ \E dt \in Datetimes, d \in OrderDurations :
          appointments' =
             Append(appointments, Appointment(Len(appointments) + 1, dt, d))
    /\ UNCHANGED <<system, messages, pc, decision, prompt, log, error,
                   branch, response, threads>>

\* GET /check_availability?dt=...&duration=...
CheckAvailability ==
    /\ response = NoResponse
    /\ \E dt \in Datetimes, d \in RequestDurations :
          response' =
             [dt |-> dt, duration |-> d,
              result |-> check_available_time(appointments, dt, d),
              body |-> check_appointment_availability(appointments, dt, d)]
    /\ UNCHANGED <<system, messages, pc, decision, prompt, log, error,
                   branch, appointments, threads>>

BackendNext == make_order \/ CheckAvailability

BackendSpec == BackendInit /\ [][BackendNext]_vars

(***************************************************************************)
(* Two runs of bot.graph.invoke on one Agent, their steps interleaved.     *)
(* The Agent (self.system, self.tools, self.model, self.graph) is shared   *)
(* and only read by the nodes; each run has the AgentState that            *)
(* graph.invoke builds from its input.  A step is one node of one run with *)
(* the edge that follows it, as in the single run above.                   *)
(***************************************************************************)
Conversations == {1, 2}

\* what the two humans type first
ThreadQueries == { <<"b","o","o","k">>, <<"h","i">> }

\* the batches of tool calls the collaborator asks for in these runs
ThreadCallLists ==
    { <<>>,
      <<ToolCall(CallId(1), "connect_to_human_operator")>>,
      <<ToolCall(CallId(1), "take_user_input")>>,
      <<ToolCall(CallId(1), "ask_user_for_input"),
        ToolCall(CallId(2), "connect_to_human_operator")>> }

\* the replies that keep a transcript, with their results, within ThreadMaxLen
ThreadReplies(state_messages) ==
    { AIMessage(c, calls) : c \in ReplyContents,
        calls \in { cl \in ThreadCallLists :
                      Len(state_messages) + 1 + Len(cl) <= ThreadMaxLen } }

\* the state of one run
Thread(state_messages, node, d, view, e) ==
    [messages |-> state_messages, pc |-> node, decision |-> d,
     prompt |-> view, error |-> e]

IsolationInit ==
    /\ system \in Systems
    /\ messages = <<>>
    /\ pc = EntryPoint
    /\ decision = "none"
    /\ prompt = <<>>
    /\ log = <<>>
    /\ error = "none"
    /\ branch = "none"
    /\ appointments = <<>>
    /\ response = NoResponse
    /\ threads \in { [c \in Conversations |->
                        Thread(<<HumanMessage(Str(q[c]))>>, EntryPoint,
                               "none", <<>>, "none")] :
                     q \in [Conversations -> ThreadQueries] }

\* (mutant of ThreadLlm) the transcript kept on the Agent: the reply is
\* appended to the transcript of every run
ThreadLlm_shared_transcript(c) ==
    /\ threads[c].pc = "llm"
    /\ threads[c].error = "none"
    /\ LET state == threads[c]
           view == call_model_input(state.messages)
       IN  \/ \E reply \in ThreadReplies(state.messages) :
                 LET new == add(state.messages, <<reply>>)
                     d == next_move(new)
                 IN  threads' =
                        [o \in Conversations |->
                           IF o = c
                           THEN Thread(new, ConditionalEdges(d), d, view, "none")
                           ELSE [threads[o] EXCEPT
                                   !.messages = add(@, <<reply>>)]]
           \/ /\ ThreadReplies(state.messages) # {}
              /\ threads' = [threads EXCEPT ![c].prompt = view,
                                            ![c].error = "model"]
    /\ UNCHANGED <<system, messages, pc, decision, prompt, log, error,
                   branch, appointments, response>>

\* node "llm" (call_model) of run c, then the conditional edge (next_move)
ThreadLlm(c) ==
    /\ threads[c].pc = "llm"
    /\ threads[c].error = "none"
    /\ LET state == threads[c]
           view == call_model_input(state.messages)
       IN  \/ \E reply \in ThreadReplies(state.messages) :
                 LET new == add(state.messages, <<reply>>)
                     d == next_move(new)
                 IN  threads' =
                        [threads EXCEPT
                           ![c] = Thread(new, ConditionalEdges(d), d, view,
                                         "none")]
           \/ /\ ThreadReplies(state.messages) # {}
              /\ threads' = [threads EXCEPT ![c].prompt = view,
                                            ![c].error = "model"]
    /\ UNCHANGED <<system, messages, pc, decision, prompt, log, error,
                   branch, appointments, response>>

\* node "action" (act) of run c, then the edge to "llm"
ThreadAction(c) ==
    /\ threads[c].pc = "action"
    /\ threads[c].error = "none"
    /\ \E run \in act(threads[c].messages) :
          IF run.raised
          THEN threads' = [threads EXCEPT ![c].error = "tool"]
          ELSE threads' = [threads EXCEPT
                             ![c].messages = add(@, run.results),
                             ![c].pc = ActionEdge]
    /\ UNCHANGED <<system, messages, pc, decision, prompt, log, error,
                   branch, appointments, response>>

IsolationNext == \E c \in Conversations : ThreadLlm(c) \/ ThreadAction(c)

IsolationSpec == IsolationInit /\ [][IsolationNext]_vars

(***************************************************************************)
(* Properties.                                                             *)
(***************************************************************************)
\* the last message of the transcript
Last == messages[Len(messages)]

IsPrefix(a, b) == Len(a) <= Len(b) /\ SubSeq(b, 1, Len(a)) = a
IsStrictPrefix(a, b) == Len(a) < Len(b) /\ SubSeq(b, 1, Len(a)) = a

\* s holds the sentinel at offset i, each letter in either case
SentinelAt(s, i) ==
    \A j \in 1..Len(Sentinel) :
        \/ s[i + j] = Sentinel[j]
        \/ /\ s[i + j] \in DOMAIN UpperToLower
           /\ UpperToLower[s[i + j]] = Sentinel[j]

\* s contains "final state:" compared case-insensitively
ContainsSentinel(s) ==
    \E i \in 0..(Len(s) - Len(Sentinel)) : SentinelAt(s, i)

\* next_move has been applied to an AIMessage
ClassifiedAI == decision # "none" /\ Last.type = "ai"

\* C1: append-only transcript.  Every step of the run leaves the turns
\* already in the transcript in place, and every step that completes (a
\* Model Step or a dispatch that returns) makes the old transcript a strict
\* prefix of the new one; a step that raises appends nothing.
C1_AppendOnly ==
    [][ /\ IsPrefix(messages, messages')
        /\ error' = "none" => IsStrictPrefix(messages, messages') ]_vars

\* C1 witness: a transcript that a Model Step, a dispatch and a second Model
\* Step have each extended.
C1_Witness ==
    /\ Len(messages) >= 4
    /\ messages[1].type = "human"
    /\ messages[2].type = "ai"
    /\ messages[3].type = "tool"
    /\ Last.type = "ai"

\* C2: priority rule.  An AIMessage with at least one tool call is
\* classified ACT (INVOKE_TOOLS), whatever its content is.
C2_CallsTakePriority ==
    (ClassifiedAI /\ Len(Last.tool_calls) > 0) => decision = ACT

\* C2 witness: an AIMessage with tool calls and a text that contains the
\* sentinel has been classified ACT.
C2_Witness ==
    /\ ClassifiedAI
    /\ Len(Last.tool_calls) > 0
    /\ Last.content.type = "str"
    /\ ContainsSentinel(Last.content.v)
    /\ decision = ACT

\* C3: a text-only AIMessage (non-empty str content, no tool calls) is
\* classified END (TERMINATE) exactly when its text contains "final state:"
\* in any letter case, and THINK (CONTINUE_REASONING) otherwise.
C3_SentinelTerminates ==
    (/\ ClassifiedAI
     /\ Last.content.type = "str"
     /\ len(Last.content) > 0
     /\ Len(Last.tool_calls) = 0)
    => /\ ContainsSentinel(Last.content.v) => decision = END
       /\ ~ContainsSentinel(Last.content.v) => decision = THINK

\* C3 witness: a text with the sentinel in mixed case, not equal to its
\* lower-case form, has been classified END.
C3_Witness ==
    /\ ClassifiedAI
    /\ Len(Last.tool_calls) = 0
    /\ Last.content.type = "str"
    /\ ContainsSentinel(Last.content.v)
    /\ ~in(Sentinel, Last.content.v)
    /\ decision = END

\* C4: totality and safe default.  Each of the four shapes of AIMessage
\* (text only, calls only, both, neither) gets one of the three labels, and
\* the shape with empty content and no tool calls gets END.
C4_TotalWithDefault ==
    ClassifiedAI
    => /\ decision \in Decision
       /\ (len(Last.content) = 0 /\ Len(Last.tool_calls) = 0) => decision = END

\* C4 witness: an AIMessage with empty content and no tool calls has been
\* classified END.
C4_Witness ==
    /\ ClassifiedAI
    /\ len(Last.content) = 0
    /\ Len(Last.tool_calls) = 0
    /\ decision = END

\* the tool calls of the AIMessage that node "action" is about to dispatch
Calls == Last.tool_calls

\* the external calls made by the step being taken
NewEvents == SubSeq(log', Len(log) + 1, Len(log'))

\* the i-th message appended by the step being taken
Appended(i) == messages'[Len(messages) + i]

\* C5: unknown tool recovery.  In every dispatch, a call whose name is not
\* in the registry causes no tool invocation and, when the dispatch returns,
\* has the ToolMessage "bad tool name, retry" at its place; a returning
\* dispatch is followed by node "llm"; a batch of unknown names alone never
\* fails, and a dispatch fails only in the invocation of a registered tool.
C5_UnknownToolRecovery ==
    [][ pc = "action" =>
        /\ \A i \in 1..Len(Calls) :
              Calls[i].name \notin DOMAIN tools =>
                 /\ \A k \in 1..Len(NewEvents) : NewEvents[k].id # Calls[i].id
                 /\ error' = "none" =>
                      Appended(i) = ToolMessage(Calls[i].id, Calls[i].name,
                                                Str(BadToolName))
        /\ error' = "none" => pc' = "llm"
        /\ (\A i \in 1..Len(Calls) : Calls[i].name \notin DOMAIN tools)
              => error' = "none"
        /\ error' # "none" =>
              /\ Len(NewEvents) > 0
              /\ NewEvents[Len(NewEvents)].name \in DOMAIN tools ]_vars

\* C5 witness: a batch of a registered and an unregistered tool has been
\* dispatched; the unregistered one got the diagnostic, only the registered
\* one was invoked, and node "llm" runs next.
C5_Witness ==
    /\ Len(messages) >= 4
    /\ Last.type = "tool"
    /\ Last.name \notin DOMAIN tools
    /\ Last.content = Str(BadToolName)
    /\ messages[Len(messages) - 1].type = "tool"
    /\ messages[Len(messages) - 1].name \in DOMAIN tools
    /\ \A k \in 1..Len(log) : log[k].kind = "tool" => log[k].name \in DOMAIN tools
    /\ pc = "llm"
    /\ error = "none"

\* C6: call/result correlation.  A dispatch of N >= 1 calls that returns
\* appends exactly N ToolMessages, the i-th carrying the id and the name of
\* the i-th call.
C6_CallResultCorrelation ==
    [][ (pc = "action" /\ error' = "none") =>
        /\ Len(Calls) >= 1
        /\ Len(messages') = Len(messages) + Len(Calls)
        /\ \A i \in 1..Len(Calls) :
              /\ Appended(i).type = "tool"
              /\ Appended(i).tool_call_id = Calls[i].id
              /\ Appended(i).name = Calls[i].name ]_vars

\* C6 witness: a batch of two calls, one registered and one not, with their
\* two results after it.
C6_Witness ==
    /\ Len(messages) = 4
    /\ Len(messages[2].tool_calls) = 2
    /\ messages[2].tool_calls[1].name \notin DOMAIN tools
    /\ messages[2].tool_calls[2].name \in DOMAIN tools
    /\ messages[3].type = "tool" /\ messages[4].type = "tool"
    /\ messages[3].tool_call_id = messages[2].tool_calls[1].id
    /\ messages[4].tool_call_id = messages[2].tool_calls[2].id

\* the place of the nearest AIMessage before place k (0 when there is none)
OwnerOf(k) ==
    LET before == { a \in 1..(k - 1) : messages[a].type = "ai" } IN
    IF before = {} THEN 0
    ELSE CHOOSE a \in before : \A b \in before : b <= a

\* the calls of the AIMessage at place a whose id is that of the result at k
MatchingCalls(a, k) ==
    { i \in 1..Len(messages[a].tool_calls) :
        messages[a].tool_calls[i].id = messages[k].tool_call_id }

\* C7: transcript correlation.  Every ToolMessage of the transcript has a
\* nearest preceding AIMessage, with only ToolMessages in between, exactly
\* one call of that AIMessage has its id, and two results of one AIMessage
\* are in the order of their calls.
C7_TranscriptCorrelation ==
    \A k \in 1..Len(messages) :
        messages[k].type = "tool" =>
            LET a == OwnerOf(k) IN
            /\ a > 0
            /\ \A b \in (a + 1)..(k - 1) : messages[b].type = "tool"
            /\ Cardinality(MatchingCalls(a, k)) = 1
            /\ \A b \in (a + 1)..(k - 1) :
                  \A i \in MatchingCalls(a, b), j \in MatchingCalls(a, k) : i < j

\* C7 witness: two AIMessages with results, the second with a batch of two
\* whose ids are not in increasing order.
C7_Witness ==
    /\ Len(messages) = 6
    /\ messages[2].type = "ai" /\ messages[3].type = "tool"
    /\ messages[4].type = "ai" /\ Len(messages[4].tool_calls) = 2
    /\ messages[4].tool_calls[1].id = CallId(2)
    /\ messages[4].tool_calls[2].id = CallId(1)
    /\ messages[5].type = "tool" /\ messages[6].type = "tool"

\* the collaborator's first turn is a single call to the operator handoff
HandoffFirst ==
    /\ Len(messages) >= 2
    /\ messages[1].type = "human"
    /\ messages[2].type = "ai"
    /\ Len(messages[2].tool_calls) = 1
    /\ messages[2].tool_calls[1].name = "connect_to_human_operator"

\* the dispatches that have returned: the AIMessages followed by a result
ActingCycles ==
    Cardinality({ k \in 1..(Len(messages) - 1) :
                    messages[k].type = "ai" /\ messages[k + 1].type = "tool" })

\* C8 as stated: after the one dispatch of the handoff call the transcript
\* has length 3 and the run is at END with it.
C8_Original ==
    HandoffFirst =>
        /\ Len(messages) = 3 => pc = GraphEND
        /\ pc = GraphEND => (Len(messages) = 3 /\ ActingCycles = 1)

\* C8 amended: when the first turn is a single handoff call, its dispatch
\* leaves the transcript HumanMessage, AIMessage, ToolMessage with the
\* sentinel in the result, and node "llm" runs next; END is reached only
\* after a further Model Step, with a transcript of at least 4 messages that
\* ends with an AIMessage; the shortest one, of 4, has exactly one dispatch.
C8_HandoffScenario ==
    HandoffFirst =>
        /\ Len(messages) = 2 => pc = "action"
        /\ Len(messages) >= 3 =>
              /\ messages[3].type = "tool"
              /\ messages[3].tool_call_id = messages[2].tool_calls[1].id
              /\ messages[3].content.type = "str"
              /\ ContainsSentinel(messages[3].content.v)
        /\ Len(messages) = 3 => (pc = "llm" /\ ActingCycles = 1)
        /\ pc = GraphEND =>
              /\ Len(messages) >= 4
              /\ Last.type = "ai"
              /\ Len(messages) = 4 => ActingCycles = 1

\* C8 witness: the handoff was dispatched once, the next turn was a text
\* with the sentinel, and the run is at END with four messages.
C8_Witness ==
    /\ HandoffFirst
    /\ pc = GraphEND
    /\ Len(messages) = 4
    /\ ActingCycles = 1
    /\ ContainsSentinel(messages[4].content.v)

\* C9: the graph's nodes are "llm" (first), "action" and END; a Model Step
\* goes to "llm" on THINK, to "action" on ACT and to END on END; a dispatch
\* that returns always goes to "llm"; no step leaves END; a step that raises
\* moves to no node.
C9_StateMachine ==
    /\ pc = "llm"
    /\ [](pc \in {"llm", "action", GraphEND})
    /\ [][ /\ pc # GraphEND
           /\ (pc = "llm" /\ error' = "none") =>
                 \/ decision' = THINK /\ pc' = "llm"
                 \/ decision' = ACT /\ pc' = "action"
                 \/ decision' = END /\ pc' = GraphEND
           /\ (pc = "action" /\ error' = "none") => pc' = "llm"
           /\ error' # "none" => pc' = pc ]_vars

\* C9 witness: a run that took each of the four transitions: THINK, ACT,
\* the return from the dispatch, END.
C9_Witness ==
    /\ Len(messages) = 5
    /\ messages[2].type = "ai" /\ Len(messages[2].tool_calls) = 0
    /\ messages[3].type = "ai" /\ Len(messages[3].tool_calls) = 1
    /\ messages[4].type = "tool"
    /\ messages[5].type = "ai"
    /\ pc = GraphEND

\* the exception that an external call of this kind raises into the run
ErrorOf(kind) == IF kind = "model" THEN "model" ELSE "tool"

\* C10: fatal failures.  A raising model.invoke or tool.invoke is the last
\* external call of the run: the run is failed from then on, it is not at
\* END, the failing step appended nothing, and no step follows it.
C10_FatalFailures ==
    /\ [](\A i \in 1..Len(log) :
             log[i].outcome = "raise" =>
                /\ i = Len(log)
                /\ error = ErrorOf(log[i].kind)
                /\ pc # GraphEND)
    /\ [](error # "none" => (Len(log) > 0 /\ log[Len(log)].outcome = "raise"))
    /\ [][ /\ error = "none"
           /\ error' # "none" => (messages' = messages /\ pc' = pc) ]_vars

\* C10 witness: the second tool of a batch raised after the first had
\* returned, and the run is failed in node "action".
C10_Witness ==
    /\ error = "tool"
    /\ pc = "action"
    /\ Len(Last.tool_calls) = 2
    /\ Len(log) >= 3
    /\ log[Len(log) - 1].kind = "tool" /\ log[Len(log) - 1].outcome = "ok"
    /\ log[Len(log) - 1].id = Last.tool_calls[1].id
    /\ log[Len(log)].outcome = "raise"
    /\ log[Len(log)].id = Last.tool_calls[2].id

\* a request has been answered
Answered == response # NoResponse

\* the requested interval and the interval of a row, in minutes
ReqStart == parse(response.dt)
ReqEnd == ReqStart + response.duration
StartOf(a) == parse(a.appointment_datetime)
EndOf(a) == StartOf(a) + a.expected_duration

\* the half-open intervals [start, end) of the request and of row a share a minute
Overlaps(a) == StartOf(a) < ReqEnd /\ ReqStart < EndOf(a)

\* the request starts where row a ends, or ends where row a starts
Touches(a) == ReqStart = EndOf(a) \/ ReqEnd = StartOf(a)

\* row a starts within 2 hours before or after the requested start
WithinTwoHours(a) ==
    StartOf(a) + 120 >= ReqStart /\ StartOf(a) <= ReqStart + 120

\* the request starts strictly inside the interval of row a
StartsInside(a) == StartOf(a) < ReqStart /\ ReqStart < EndOf(a)

\* C11 as stated: touching endpoints do not conflict.  A request that starts
\* exactly where a stored appointment ends, or ends exactly where one
\* starts, with no stored appointment overlapping it, is reported available.
C11_TouchingIsAvailable ==
    (/\ Answered
     /\ \E i \in 1..Len(appointments) : Touches(appointments[i])
     /\ \A i \in 1..Len(appointments) : ~Overlaps(appointments[i]))
    => response.result.is_available

\* the first row, in row order, that starts within 2 hours of the request
\* and whose closed interval meets the closed interval of the request
\* (0 when there is none)
FirstMeeting ==
    LET meeting == { i \in 1..Len(appointments) :
                       /\ WithinTwoHours(appointments[i])
                       /\ ReqStart <= EndOf(appointments[i])
                       /\ ReqEnd >= StartOf(appointments[i]) }
    IN  IF meeting = {} THEN 0
        ELSE CHOOSE i \in meeting : \A j \in meeting : i <= j

\* C12 as stated: the suggestion is the end of every appointment inside
\* whose interval the request starts.  It is stated for the tables in which
\* no appointment merely touches the request, so that its failure does not
\* rest on the boundary rule of C11.
C12_Original ==
    (Answered /\ \A k \in 1..Len(appointments) : ~Touches(appointments[k])) =>
        \A i \in 1..Len(appointments) :
            (StartsInside(appointments[i]) /\ WithinTwoHours(appointments[i]))
            => /\ ~response.result.is_available
               /\ response.result.suggested_time
                     = isoformat(EndOf(appointments[i]))

\* C12 amended: a request that starts strictly inside an appointment that
\* starts within 2 hours of it is reported as a conflict, the body carries
\* the suggestion, and the suggestion is the end of the first row, in row
\* order, within the window that meets the request: the end of that very
\* appointment when no such row is stored before it.
C12_ConflictWithSuggestion ==
    Answered =>
        \A i \in 1..Len(appointments) :
            (StartsInside(appointments[i]) /\ WithinTwoHours(appointments[i]))
            => /\ ~response.result.is_available
               /\ FirstMeeting \in 1..i
               /\ response.result.suggested_time
                     = isoformat(EndOf(appointments[FirstMeeting]))
               /\ response.body.message[Len(response.body.message)]
                     = response.result.suggested_time

\* C12 witness: the request starts inside two stored appointments that end
\* at different times, and the end of the one stored first is suggested.
C12_Witness ==
    /\ Answered
    /\ Len(appointments) = 2
    /\ StartsInside(appointments[1]) /\ WithinTwoHours(appointments[1])
    /\ StartsInside(appointments[2]) /\ WithinTwoHours(appointments[2])
    /\ EndOf(appointments[1]) > EndOf(appointments[2])
    /\ response.result.suggested_time = isoformat(EndOf(appointments[1]))

\* the calls of the batch whose names are registered, in call order
RegisteredCalls == SelectSeq(Calls, LAMBDA t : t.name \in DOMAIN tools)

\* C13: sequential dispatch order.  The tool invocations of one dispatch are
\* the registered calls of the batch taken in call order, one invocation per
\* call: the k-th invocation is that of the k-th registered call, every
\* invocation but the last has returned before the next is made, only the
\* last can have raised, and a dispatch that returns has invoked them all.
C13_SequentialDispatch ==
    [][ pc = "action" =>
        /\ Len(NewEvents) <= Len(RegisteredCalls)
        /\ \A k \in 1..Len(NewEvents) :
              /\ NewEvents[k].kind = "tool"
              /\ NewEvents[k].id = RegisteredCalls[k].id
              /\ NewEvents[k].name = RegisteredCalls[k].name
              /\ k < Len(NewEvents) => NewEvents[k].outcome = "ok"
        /\ error' = "none" =>
              /\ Len(NewEvents) = Len(RegisteredCalls)
              /\ \A k \in 1..Len(NewEvents) : NewEvents[k].outcome = "ok"
        /\ error' # "none" =>
              /\ Len(NewEvents) >= 1
              /\ NewEvents[Len(NewEvents)].outcome = "raise" ]_vars

\* C13 witness: a first batch of two different registered tools, ids not in
\* increasing order, was dispatched: the two invocations are in the log in
\* call order, both returned.
C13_Witness ==
    /\ Len(messages) = 4
    /\ Len(log) = 3
    /\ Len(messages[2].tool_calls) = 2
    /\ messages[2].tool_calls[1].id = CallId(2)
    /\ messages[2].tool_calls[1].name = "ask_user_for_input"
    /\ messages[2].tool_calls[2].name = "connect_to_human_operator"
    /\ log[2] = ToolEvent(messages[2].tool_calls[1], "ok")
    /\ log[3] = ToolEvent(messages[2].tool_calls[2], "ok")
    /\ pc = "llm"

\* the ToolMessages that directly follow place a of the list s
ResultsAfter(s, a) ==
    { k \in (a + 1)..Len(s) : \A b \in (a + 1)..k : s[b].type = "tool" }

\* the AIMessage at place a of s has all its results after it, in call order
AllResults(s, a) ==
    /\ Cardinality(ResultsAfter(s, a)) = Len(s[a].tool_calls)
    /\ \A i \in 1..Len(s[a].tool_calls) :
          s[a + i].tool_call_id = s[a].tool_calls[i].id

\* the AIMessage at place a of s has no result after it
NoResults(s, a) == ResultsAfter(s, a) = {}

\* C14: batch results are appended as a unit.  Every AIMessage of the
\* transcript is followed by the results of all its calls or by none, and
\* by none only while it is the last message; in every list handed to the
\* model each AIMessage has all its results; and when a tool has raised, the
\* transcript ends with the AIMessage of the batch, with no result of it,
\* whatever calls of the batch the log shows as invoked.
C14_BatchAsUnit ==
    /\ \A a \in 1..Len(messages) :
          messages[a].type = "ai" =>
             \/ AllResults(messages, a)
             \/ NoResults(messages, a) /\ a = Len(messages)
    /\ \A a \in 1..Len(prompt) :
          prompt[a].type = "ai" => AllResults(prompt, a)
    /\ error = "tool" =>
          /\ Last.type = "ai"
          /\ Len(Last.tool_calls) >= 1
          /\ log[Len(log)].kind = "tool"
          /\ log[Len(log)].outcome = "raise"

\* C14 witness: after a first batch with its result, the second tool of a
\* batch of two raised when the first had returned: the log holds the
\* invocation of the first, the transcript no result of the batch.
C14_Witness ==
    /\ error = "tool"
    /\ Len(messages) = 4
    /\ messages[2].type = "ai" /\ messages[3].type = "tool"
    /\ Len(messages[4].tool_calls) = 2
    /\ Len(log) >= 2
    /\ log[Len(log) - 1] = ToolEvent(messages[4].tool_calls[1], "ok")
    /\ log[Len(log)] = ToolEvent(messages[4].tool_calls[2], "raise")

\* the places of the SystemMessages of the list s
SystemPlaces(s) == { k \in 1..Len(s) : s[k].type = "system" }

\* C15: one model call and one appended turn per visit to node "llm".  A
\* step of node "llm" makes exactly one external call, model.invoke, on the
\* transcript with at most one SystemMessage put first; when it returns,
\* exactly one message, an AIMessage, is appended to the transcript; and no
\* SystemMessage is ever in the transcript, so every list handed to the
\* model holds at most one SystemMessage and it is first.
C15_OneCallOneTurn ==
    /\ [](SystemPlaces(messages) = {})
    /\ [](SystemPlaces(prompt) \subseteq {1})
    /\ [][ pc = "llm" =>
           /\ Len(NewEvents) = 1
           /\ NewEvents[1].kind = "model"
           /\ prompt' \in { messages, <<SystemMessage(Str(system))>> \o messages }
           /\ error' = "none" =>
                 /\ Len(messages') = Len(messages) + 1
                 /\ SubSeq(messages', 1, Len(messages)) = messages
                 /\ Appended(1).type = "ai"
           /\ error' # "none" => messages' = messages ]_vars

\* C15 witness: with a non-empty system text, node "llm" was visited three
\* times; the third list handed to the model is the SystemMessage followed
\* by the transcript of three messages, and the transcript now has four.
C15_Witness ==
    /\ system # <<>>
    /\ Len(log) = 3
    /\ \A k \in 1..3 : log[k] = ModelEvent("ok")
    /\ Len(messages) = 4
    /\ Len(prompt) = 4
    /\ prompt[1] = SystemMessage(Str(system))
    /\ SubSeq(prompt, 2, 4) = SubSeq(messages, 1, 3)

\* C16: a last message that is not an AIMessage is classified END by
\* next_move, whatever its content, and the conditional edge goes to END.
C16_NonAIEnds ==
    (decision # "none" /\ Last.type # "ai")
    => (decision = END /\ pc = GraphEND)

\* C16 witness: a ToolMessage without the sentinel has been classified END.
C16_Witness ==
    /\ decision = END
    /\ pc = GraphEND
    /\ Last.type = "tool"
    /\ Last.content.type = "str"
    /\ ~ContainsSentinel(Last.content.v)

\* an AIMessage that asks for tools, or whose text is non-empty and is not a
\* str with the sentinel
NonTerminatingTurn(m) ==
    /\ m.type = "ai"
    /\ \/ Len(m.tool_calls) > 0
       \/ /\ len(m.content) > 0
          /\ ~(m.content.type = "str" /\ ContainsSentinel(m.content.v))

\* an AIMessage with no tool calls whose text is empty or holds the sentinel
TerminatingTurn(m) ==
    /\ m.type = "ai"
    /\ Len(m.tool_calls) = 0
    /\ \/ len(m.content) = 0
       \/ m.content.type = "str" /\ ContainsSentinel(m.content.v)

\* the model calls the run has made
ModelSteps == Cardinality({ k \in 1..Len(log) : log[k].kind = "model" })

\* a Model Step whose reply is classified THINK
ThinkStep == LlmNode /\ decision' = THINK /\ pc' = "llm"

\* a dispatch that returns
DispatchReturns == ActionNode /\ error' = "none" /\ pc' = "llm"

C18_TerminatingTurnEnds ==
    /\ [](\A k \in 1..Len(messages) :
             TerminatingTurn(messages[k]) =>
                /\ k = Len(messages)
                /\ pc = GraphEND
                /\ error = "none"
                /\ log[Len(log)] = ModelEvent("ok"))
    /\ [][ /\ pc # GraphEND
           /\ (pc = "llm" /\ error' = "none" /\ TerminatingTurn(Appended(1)))
                 => /\ pc' = GraphEND
                    /\ decision' = END
                    /\ messages' = Append(messages, Appended(1)) ]_vars

\* C18 witness: after a text without the sentinel, the collaborator returned
\* an AIMessage with empty text and no calls, and the run is at END after
\* two model calls and no tool invocation.
C18_Witness ==
    /\ pc = GraphEND
    /\ Len(messages) = 3
    /\ NonTerminatingTurn(messages[2])
    /\ TerminatingTurn(messages[3])
    /\ len(messages[3].content) = 0
    /\ log = <<ModelEvent("ok"), ModelEvent("ok")>>

\* C19: a ToolMessage never ends the run.  END is entered only by a step of
\* node "llm" that the model call returned from; at END the last message
\* is an AIMessage with no tool calls, so every ToolMessage of the transcript
\* has an AIMessage after it; and a dispatch that returns goes to node "llm"
\* even when one of its results holds the sentinel.
C19_ResultNeverEnds ==
    /\ [](pc = GraphEND =>
             /\ Last.type = "ai"
             /\ Len(Last.tool_calls) = 0
             /\ log[Len(log)] = ModelEvent("ok")
             /\ \A k \in 1..Len(messages) :
                   messages[k].type = "tool" =>
                      \E j \in (k + 1)..Len(messages) : messages[j].type = "ai")
    /\ [][ /\ (pc # GraphEND /\ pc' = GraphEND)
                 => (pc = "llm" /\ NewEvents = <<ModelEvent("ok")>>)
           /\ (pc = "action" /\ error' = "none")
                 => (pc' = "llm" /\ decision' = decision) ]_vars

\* C19 witness: the handoff tool returned its text with the sentinel, one
\* more model call was made, its reply was empty, and the run is at END.
C19_Witness ==
    /\ HandoffFirst
    /\ pc = GraphEND
    /\ Len(messages) = 4
    /\ ContainsSentinel(messages[3].content.v)
    /\ len(messages[4].content) = 0
    /\ log = <<ModelEvent("ok"), ToolEvent(messages[2].tool_calls[1], "ok"),
               ModelEvent("ok")>>

\* the branch of the graph of graph.py that stands for a label of next_move:
\* node "agent" for THINK, node "tools" for ACT, END for END
BranchOf(d) ==
    CASE d = THINK -> "agent"
      [] d = ACT   -> "tools"
      [] d = END   -> GraphEND

\* C20 as stated: for every shape of AIMessage should_continue takes the
\* branch that stands for the label of next_move.
C20_Original == ClassifiedAI => branch = BranchOf(decision)

\* C20 amended: should_continue takes the branch that stands for the label
\* of next_move for an AIMessage with tool calls (with or without text:
\* ACT, "tools"), with neither text nor calls (END, END) and with a text
\* that holds the sentinel and no calls (END, END); for a text without the
\* sentinel and no calls next_move returns THINK while should_continue goes
\* to END, and should_continue never goes back to node "agent".
C20_RoutersCompared ==
    ClassifiedAI =>
        /\ branch \in {"tools", GraphEND}
        /\ Len(Last.tool_calls) > 0 => (decision = ACT /\ branch = "tools")
        /\ TerminatingTurn(Last) => (decision = END /\ branch = GraphEND)
        /\ (Len(Last.tool_calls) = 0 /\ NonTerminatingTurn(Last))
              => (decision = THINK /\ branch = GraphEND)
        /\ decision # THINK => branch = BranchOf(decision)

\* C20 witness: a text without the sentinel and no calls went through both
\* routers: THINK from next_move, END from should_continue.
C20_Witness ==
    /\ ClassifiedAI
    /\ Len(Last.tool_calls) = 0
    /\ Last.content.type = "str"
    /\ len(Last.content) > 0
    /\ ~ContainsSentinel(Last.content.v)
    /\ decision = THINK
    /\ branch = GraphEND

\* the answer of the same check at the suggested time, with the same duration
Recheck ==
    check_available_time(appointments, response.result.suggested_time,
                         response.duration)

\* C21 as stated: the suggested alternative is non-conflicting.  Whenever a
\* conflict is reported, the suggested time is the end of a stored
\* appointment that overlaps the request, and the same check at the
\* suggested time with the same duration reports available.
C21_SuggestionIsFree ==
    (Answered /\ ~response.result.is_available) =>
        /\ \E i \in 1..Len(appointments) :
              /\ Overlaps(appointments[i])
              /\ response.result.suggested_time
                    = isoformat(EndOf(appointments[i]))
        /\ Recheck.is_available

\* C22: two-hour pre-filter.  Only the stored appointments that start
\* within 2 hours before or after the requested start (both ends included)
\* are looked at: a conflict is reported exactly when one of them meets the
\* request, the appointment named in the report starts within the window,
\* and when every stored appointment starts outside the window the request
\* is reported available, even when one of them overlaps it.
C22_TwoHourPrefilter ==
    Answered =>
        /\ response.result.is_available <=> FirstMeeting = 0
        /\ ~response.result.is_available =>
              /\ response.result.conflict_message[2]
                    = appointments[FirstMeeting].appointment_datetime
              /\ \A i \in 1..Len(appointments) :
                    appointments[i].appointment_datetime
                       = response.result.conflict_message[2]
                    => WithinTwoHours(appointments[i])
        /\ (\A i \in 1..Len(appointments) : ~WithinTwoHours(appointments[i]))
              => response.result.is_available

\* C22 witness: a stored appointment of 3 hours starts more than 2 hours
\* before the request and is still running at the requested start, and the
\* request is reported available.
C22_Witness ==
    /\ Answered
    /\ Len(appointments) >= 1
    /\ \E i \in 1..Len(appointments) :
          /\ Overlaps(appointments[i])
          /\ StartOf(appointments[i]) + 120 < ReqStart
    /\ \A i \in 1..Len(appointments) : ~WithinTwoHours(appointments[i])
    /\ response.result.is_available

\* the tool calls of the last message of run c
CallsOf(c) == threads[c].messages[Len(threads[c].messages)].tool_calls

\* i-th message appended to run c by the step being taken
AppendedTo(c, i) == threads'[c].messages[Len(threads[c].messages) + i]

\* C23: conversation isolation.  With the steps of two runs on one Agent
\* interleaved, every step is a step of one run c and leaves the state of
\* the other run as it was; the transcript of c stays a prefix of its new
\* transcript; a Model Step of c hands the model the transcript of c (after
\* the shared instruction), appends one AIMessage and classifies the
\* transcript of c; a dispatch of c appends the results of the calls of the
\* last message of c; and each transcript keeps the one HumanMessage it
\* started with, at its first place.
C23_ConversationIsolation ==
    /\ [](\A c \in Conversations :
             /\ threads[c].messages[1].type = "human"
             /\ \A k \in 2..Len(threads[c].messages) :
                   threads[c].messages[k].type \in {"ai", "tool"}
             /\ threads[c].decision # "none" =>
                   \E k \in 2..Len(threads[c].messages) :
                      threads[c].decision
                         = next_move(SubSeq(threads[c].messages, 1, k)))
    /\ [][ \E c \in Conversations :
             /\ \A o \in Conversations \ {c} : threads'[o] = threads[o]
             /\ IsPrefix(threads[c].messages, threads'[c].messages)
             /\ threads[c].pc = "llm" =>
                   threads'[c].prompt = call_model_input(threads[c].messages)
             /\ (threads[c].pc = "llm" /\ threads'[c].error = "none") =>
                   /\ Len(threads'[c].messages) = Len(threads[c].messages) + 1
                   /\ AppendedTo(c, 1).type = "ai"
                   /\ threads'[c].decision = next_move(threads'[c].messages)
                   /\ threads'[c].pc = ConditionalEdges(threads'[c].decision)
             /\ (threads[c].pc = "action" /\ threads'[c].error = "none") =>
                   /\ Len(threads'[c].messages)
                         = Len(threads[c].messages) + Len(CallsOf(c))
                   /\ \A i \in 1..Len(CallsOf(c)) :
                         /\ AppendedTo(c, i).type = "tool"
                         /\ AppendedTo(c, i).tool_call_id = CallsOf(c)[i].id
                         /\ AppendedTo(c, i).name = CallsOf(c)[i].name
             /\ threads'[c].error # "none" =>
                   threads'[c].messages = threads[c].messages ]_vars

\* C23 witness: both runs are under way at once with different transcripts:
\* run 1 has had a dispatch and is back in node "llm" with three messages,
\* run 2 has had a Model Step and is in node "action" with two.
C23_Witness ==
    /\ threads # NoThreads
    /\ threads[1].pc = "llm"
    /\ threads[1].error = "none"
    /\ Len(threads[1].messages) = 3
    /\ threads[1].messages[3].type = "tool"
    /\ threads[1].messages[3].name = "connect_to_human_operator"
    /\ threads[2].pc = "action"
    /\ threads[2].error = "none"
    /\ Len(threads[2].messages) = 2
    /\ threads[2].messages[2].tool_calls[1].name = "take_user_input"
    /\ threads[1].messages[1] # threads[2].messages[1]

=============================================================================
